---------------------------- MODULE Spec2Model ----------------------------
(* A model of the Keyed Observable Store of src/src/utils/GlobalState.js:  *)
(* the registry of named instances, each instance's stored values,         *)
(* listener arrays and config, and the operations on them.                 *)
(*                                                                         *)
(* JavaScript values are strings: a stored value is "v0", "v1", "wax" or   *)
(* "files"; undefined is "undefined"; an instance object is referred to by *)
(* the name it is (to be) registered under.  A thrown exception ends the   *)
(* running call: it is carried in the field err of the call's context and  *)
(* every later step of the call is skipped.                                *)
EXTENDS Naturals, Sequences, FiniteSets

VARIABLES
  instances,   \* GlobalState.#instances: name -> instance, DOMAIN = registered names
  statesList,  \* the registered names in insertion order (keys(#instances))
  pre,         \* instances and statesList as they were before the last call
  last,        \* the last call made: operation and arguments
  calls,       \* the listener invocations the last call made, in order
  err,         \* the exception the last call raised, or "none"
  warn,        \* the console.warn messages of the last call
  ret,         \* what the last call returned
  mounted      \* the components using useGlobalEvents that are mounted

vars == <<instances, statesList, pre, last, calls, err, warn, ret, mounted>>

-----------------------------------------------------------------------------
(* Bounds and domains *)

\* Most listener records one instance holds, over all its events: under
\* SpecBus, under SpecStore and under Spec.
MaxListeners == 4
MaxStoreListeners == 2
MaxRegistryListeners == 1
MaxConfigListeners == 2
MaxDispatchListeners == 4
MaxReentrantListeners == 3
MaxRewriteListeners == 3

Names == {"aiDesigner", "gui"}
UnknownNames == {"doesNotExist"}
Keys == {"a", "b"}
LoadKeys == {"editors", "menu"}
AllKeys == Keys \cup LoadKeys
Values == {"v0", "v1"}
Undefined == "undefined"
UpdateEvents == {"a-update", "b-update"}
EventNames == Keys \cup {"config"} \cup UpdateEvents
BusListeners == {"L1", "L2", "Loff"}
DispatchListeners == {"L1", "L2", "Lon", "Lover", "Lother", "Lclear"}
Listeners ==
  BusListeners \cup DispatchListeners \cup {"Lstore", "Lvalidate", "Lrewrite"}
ValidatorIds == {"acceptAll", "onlyV1"}
NoValidator == "none"
NotCallable == "notCallable"

-----------------------------------------------------------------------------
(* Helpers of ./generalUtils, which is not among the sources; modelled     *)
(* from their README descriptions.                                         *)

\* safeCall(callback, fallback): the callback when it is a function, else
\* the fallback.  Here a validator is either an id of ValidatorIds (a
\* function) or NoValidator (undefined).
safeCall(callback, fallback) ==
  IF callback \in ValidatorIds THEN callback ELSE fallback

\* onEntries(obj, callback) visits Object.entries(obj) in order; an object
\* is the sequence of its <<key, value>> entries.
onEntries(obj) == obj

\* typeof of an argument value.
TypeOf(x) ==
  IF x.t \in {"object", "array", "null"} THEN "object" ELSE x.t

\* callOn(key, options): calls options[key], or options.default when
\* options has no such key; here, which of the branches given is called.
callOn(key, branches) == IF key \in branches THEN key ELSE "default"

\* What callOn(typeof x, {object: () => !isArray(x) && x,
\* function: () => x(this), default: () => false}) yields: the tag of the
\* resolved value, or "false".
Resolved(x) ==
  LET branch == callOn(TypeOf(x), {"object", "function", "default"})
  IN CASE branch = "object" ->
            IF x.t = "array" THEN "false"
            ELSE IF x.t = "null" THEN "null" ELSE "object"
       [] branch = "function" -> x.rt
       [] branch = "default" -> "false"

Truthy(tag) == tag \in {"object", "array", "function", "number"}

-----------------------------------------------------------------------------
(* Validators and listeners: the callbacks the callers supply *)

\* What validator id returns for value v.
ValidatorResult(id, v) ==
  CASE id = "acceptAll" -> TRUE
    [] id = "onlyV1" -> v = "v1"
    [] id = "returnTrue" -> TRUE

\* What a listener does when invoked, beyond being recorded, each on the
\* instance it is registered on.  L1 and L2 do nothing; Loff calls
\* off("a", Loff); Lon calls on("a", L2); Lover calls
\* on("a", L2, {overwrite: true}); Lother calls off("a", L1); Lclear calls
\* clear("a"); Lstore calls store({b: "v1"}); Lvalidate calls
\* validate({b: onlyV1}); Lrewrite, a listener of a, calls store({a: "v1"})
\* when the new value it is given is "v0".  No listener throws.
Behaviour(l) ==
  CASE l = "Loff" -> [kind |-> "off", ev |-> "a", cb |-> "Loff", flag |-> FALSE]
    [] l = "Lon" -> [kind |-> "on", ev |-> "a", cb |-> "L2", flag |-> FALSE]
    [] l = "Lover" -> [kind |-> "on", ev |-> "a", cb |-> "L2", flag |-> TRUE]
    [] l = "Lother" -> [kind |-> "off", ev |-> "a", cb |-> "L1", flag |-> FALSE]
    [] l = "Lclear" -> [kind |-> "clear", ev |-> "a", cb |-> "", flag |-> FALSE]
    [] l = "Lstore" -> [kind |-> "store", ev |-> "", cb |-> "", flag |-> FALSE]
    [] l = "Lvalidate" -> [kind |-> "validate", ev |-> "", cb |-> "", flag |-> FALSE]
    [] l = "Lrewrite" -> [kind |-> "rewrite", ev |-> "", cb |-> "", flag |-> FALSE]
    [] OTHER -> [kind |-> "none", ev |-> "", cb |-> "", flag |-> FALSE]

\* The entry Lstore stores and the validators Lvalidate installs.
ListenerStoreKey == "b"
ListenerStoreValue == "v1"
RewriteKey == "a"
RewriteFrom == "v0"
RewriteTo == "v1"
ListenerValidators ==
  [k \in AllKeys |-> IF k = "b" THEN "onlyV1" ELSE NoValidator]

-----------------------------------------------------------------------------
(* An instance *)

NoValidators == [k \in AllKeys |-> NoValidator]

\* #config = {}: no own keys.
EmptyConfig ==
  [t |-> "object", has |-> {}, validators |-> NoValidators,
   emitOnStateSet |-> FALSE]

\* new GlobalState()
NewInstance ==
  [stored |-> [k \in AllKeys |-> Undefined],
   events |-> [e \in EventNames |-> <<>>],
   evKeys |-> {},
   accessors |-> {},
   config |-> EmptyConfig]

\* The context of a call running on the instance object `self`.
Ctx(self, st) ==
  [self |-> self, st |-> st, calls |-> <<>>, err |-> "none", warn |-> <<>>,
   depth |-> 0]

Throw(c, e) == [c EXCEPT !.err = e]
Warn(c, w) == [c EXCEPT !.warn = Append(@, w)]

-----------------------------------------------------------------------------
(* The event bus *)

IsFunctionAlways(l) == TRUE
IsFunction(l) == l \in Listeners

\* The listener array of eventName after on(): created when absent, replaced
\* by [{cb: listener}] when overwrite is set and it is non-empty, else pushed to.
OnSeqNoOverwrite(prev, listener, overwrite) == Append(prev, listener)
OnSeq(prev, listener, overwrite) ==
  IF overwrite /\ Len(prev) > 0 THEN <<listener>> ELSE Append(prev, listener)

\* on(eventName, listener, options)
On(c, eventName, listener, overwrite) ==
  IF ~IsFunction(listener) THEN c
  ELSE [c EXCEPT !.st.evKeys = @ \cup {eventName},
                 !.st.events[eventName] = OnSeq(@, listener, overwrite)]

\* this.#events[eventName].filter(l => l.cb !== listener)
OffFilterFirst(seq, listener) ==
  IF \E i \in 1..Len(seq) : seq[i] = listener
  THEN LET i == CHOOSE j \in 1..Len(seq) :
                  /\ seq[j] = listener
                  /\ \A h \in 1..(j - 1) : seq[h] # listener
       IN SubSeq(seq, 1, i - 1) \o SubSeq(seq, i + 1, Len(seq))
  ELSE seq
OffFilter(seq, listener) == SelectSeq(seq, LAMBDA cb : cb # listener)

\* off(eventName, listener)
Off(c, eventName, listener) ==
  IF eventName \in c.st.evKeys
  THEN [c EXCEPT !.st.events[eventName] = OffFilter(@, listener)]
  ELSE c

\* clear(eventName): delete this.#events[eventName]
ClearEvent(st, eventName) ==
  [st EXCEPT !.evKeys = @ \ {eventName}, !.events[eventName] = <<>>]

Clear(c, eventName) ==
  IF eventName \in c.st.evKeys
  THEN [c EXCEPT !.st = ClearEvent(@, eventName)]
  ELSE c

\* The array forEach walks: the array object emit read when it began.  off,
\* on with overwrite and clear assign a new array (or delete the property)
\* and leave that object alone; push only extends it past the length forEach
\* fixed at its start.
ForEachTargetLive(atStart, live) == live
ForEachTarget(atStart, live) == atStart

\* The order forEach visits the indices in.
DispatchIndexReversed(i, len) == len + 1 - i
DispatchIndex(i, len) == i

RECURSIVE ForEach(_, _, _, _, _)
RECURSIVE Invoke(_, _, _, _)
RECURSIVE Emit(_, _, _)
RECURSIVE Store(_, _, _)
RECURSIVE Validate(_, _)

\* listener.cb(...args): the invocation is recorded, then the listener runs.
InvokeDetached(c, eventName, listener, args) ==
  [c EXCEPT !.calls = Append(@,
     [inst |-> c.self, ev |-> eventName, cb |-> listener,
      args |-> args, depth |-> c.depth])]
Invoke(c, eventName, listener, args) ==
  LET c1 == [c EXCEPT !.calls = Append(@,
               [inst |-> c.self, ev |-> eventName, cb |-> listener,
                args |-> args, depth |-> c.depth])]
      b == Behaviour(listener)
  IN CASE b.kind = "off" -> Off(c1, b.ev, b.cb)
       [] b.kind = "on" -> On(c1, b.ev, b.cb, b.flag)
       [] b.kind = "clear" -> Clear(c1, b.ev)
       [] b.kind = "store" ->
            Store(c1, [t |-> "object", rt |-> "object",
                       pairs |-> << <<ListenerStoreKey, ListenerStoreValue>> >>],
                  TRUE)
       [] b.kind = "validate" -> Validate(c1, ListenerValidators)
       [] b.kind = "rewrite" ->
            IF Len(args) >= 2 /\ args[2] = RewriteFrom
            THEN Store(c1, [t |-> "object", rt |-> "object",
                            pairs |-> << <<RewriteKey, RewriteTo>> >>],
                       TRUE)
            ELSE c1
       [] OTHER -> c1

\* Array.prototype.forEach from index i on: len is fixed at the start, an
\* index the array no longer has is skipped, an exception ends the walk.
ForEach(c, eventName, atStart, i, args) ==
  IF c.err # "none" \/ i > Len(atStart) THEN c
  ELSE LET arr == ForEachTarget(atStart, c.st.events[eventName])
           ix == DispatchIndex(i, Len(atStart))
           c1 == IF ix <= Len(arr) THEN Invoke(c, eventName, arr[ix], args)
                 ELSE c
       IN ForEach(c1, eventName, atStart, i + 1, args)

\* emit(eventName, ...args)
Emit(c, eventName, args) ==
  IF c.err # "none" THEN c
  ELSE IF eventName \in EventNames /\ eventName \in c.st.evKeys
  THEN LET inner == ForEach([c EXCEPT !.depth = @ + 1], eventName,
                            c.st.events[eventName], 1, args)
       IN [inner EXCEPT !.depth = c.depth]
  ELSE c

-----------------------------------------------------------------------------
(* The write path *)

\* An argument that is a plain object with the entries `pairs`, a function
\* returning such an object, or a value of another type.
Obj(pairs) == [t |-> "object", rt |-> "object", pairs |-> pairs]
Fn(pairs) == [t |-> "function", rt |-> "object", pairs |-> pairs]
Other(tag) == [t |-> tag, rt |-> tag, pairs |-> <<>>]
\* A function that calls validate(validators) on the instance it is given
\* and then returns the object.
FnValidating(validators, pairs) ==
  [t |-> "function", rt |-> "object", pairs |-> pairs, fx |-> validators]

\* entry(this): what running a function entry does to the instance.
EntryEffect(c, entry) ==
  IF entry.t = "function" /\ "fx" \in DOMAIN entry
  THEN Validate(c, entry.fx)
  ELSE c

\* The entries onEntries visits of a resolved, truthy value: those of the
\* object; a number has none.
EntriesOf(x) == IF Resolved(x) = "object" THEN onEntries(x.pairs) ELSE <<>>

\* const shouldEmit = !!emitOnStateSet || emit
ShouldEmit(emitOnStateSet, emit) == emitOnStateSet \/ emit

\* safeCall(validators[k], () => true)(v), validators being an object
AllowUpdateIgnoresValidator(validators, k, v) == TRUE
AllowUpdate(validators, k, v) ==
  ValidatorResult(safeCall(validators[k], "returnTrue"), v)

\* const prev = this.#stored[k]
PrevValue(stored, k) == stored[k]

\* The config whose validators and emitOnStateSet decide a key: store
\* destructures #config once, when it begins, before the entry is resolved.
ConfigConsulted(atStart, atKey) == atStart

\* The callback store passes to onEntries, for entries i.. of `pairs`.
\* config is the #config store destructured when it began: with no
\* validators key in it, validators is undefined and validators[k] throws.
RECURSIVE StoreEntries(_, _, _, _, _)
StoreEntries(c, config, pairs, i, emit) ==
  IF c.err # "none" \/ i > Len(pairs) THEN c
  ELSE LET k == pairs[i][1]
           v == pairs[i][2]
           cfg == ConfigConsulted(config, c.st.config)
       IN IF "validators" \notin cfg.has THEN Throw(c, "TypeError")
          ELSE IF AllowUpdate(cfg.validators, k, v)
          THEN LET prev == PrevValue(c.st.stored, k)
                   c1 == [c EXCEPT !.st.stored[k] = v]
                   c2 == IF ShouldEmit(cfg.emitOnStateSet, emit)
                         THEN Emit(c1, k, <<prev, v, c.self>>)
                         ELSE c1
               IN StoreEntries(c2, config, pairs, i + 1, emit)
          ELSE StoreEntries(c, config, pairs, i + 1, emit)

\* The rest of store once the entry was resolved in context c: the entries
\* are processed against the config read before, or the entry is refused.
StoreResolved(c, config, entry, emit) ==
  IF c.err # "none" THEN c
  ELSE IF Truthy(Resolved(entry))
  THEN StoreEntries(c, config, EntriesOf(entry), 1, emit)
  ELSE Warn(c, "The state entry must be an object or a function that returns an object")

\* store(entry, emit = true): #config is read, then the entry is resolved.
Store(c, entry, emit) ==
  StoreResolved(EntryEffect(c, entry), c.st.config, entry, emit)

\* read(key)
Read(st, key) == st.stored[key]

\* `${k}-update`
UpdateEventIsKey(k) == k
UpdateEvent(k) ==
  CASE k = "a" -> "a-update"
    [] k = "b" -> "b-update"
    [] k = "editors" -> "editors-update"
    [] k = "menu" -> "menu-update"

\* The callback update passes to onEntries, for entries i.. of `pairs`.
RECURSIVE UpdateEntries(_, _, _)
UpdateEntries(c, pairs, i) ==
  IF c.err # "none" \/ i > Len(pairs) THEN c
  ELSE LET k == pairs[i][1]
           v == pairs[i][2]
           c1 == [c EXCEPT !.st.stored[k] = v]
       IN UpdateEntries(Emit(c1, UpdateEvent(k), <<v>>), pairs, i + 1)

\* update(states), states a plain object
Update(c, states) == UpdateEntries(c, onEntries(states.pairs), 1)

-----------------------------------------------------------------------------
(* Configuration *)

\* A config object with the own keys `has`.
Config(has, validators, emitOnStateSet) ==
  [t |-> "object", has |-> has,
   validators |-> IF "validators" \in has THEN validators ELSE NoValidators,
   emitOnStateSet |-> ("emitOnStateSet" \in has) /\ emitOnStateSet]

\* { ...old, ...new }
Spread(old, new) ==
  [t |-> "object", has |-> old.has \cup new.has,
   validators |-> IF "validators" \in new.has THEN new.validators
                  ELSE old.validators,
   emitOnStateSet |-> IF "emitOnStateSet" \in new.has THEN new.emitOnStateSet
                      ELSE old.emitOnStateSet]

\* A setConfig argument: a config object, a function returning one, or a
\* value of another type.
CfgObj(cfg) == [t |-> "object", rt |-> "object", cfg |-> cfg]
CfgFn(cfg) == [t |-> "function", rt |-> "object", cfg |-> cfg]
CfgOther(tag) == [t |-> tag, rt |-> tag, cfg |-> EmptyConfig]

\* A value that is not a plain object, as #config would hold it: a number
\* has no own keys, the array ["x"] has the own key "0"; neither has
\* validators or emitOnStateSet.
NonObjectValue(tag) ==
  [t |-> tag, has |-> IF tag = "array" THEN {"0"} ELSE {},
   validators |-> NoValidators, emitOnStateSet |-> FALSE]

\* A function argument returning a value that is not a plain object.
CfgFnReturning(tag) ==
  [t |-> "function", rt |-> tag, cfg |-> NonObjectValue(tag)]

\* keys(this.#config).length > 0 && !update
ConfigAlreadySet(config, update) == config.has # {} /\ ~update

\* The arguments of the 'config' event: newConfig, the resolved argument,
\* and this; merged is the #config just assigned.
ConfigEventArgs(newConfig, merged, self) == <<newConfig, self>>

\* setConfig(config, update)
SetConfig(c, config, update) ==
  IF ConfigAlreadySet(c.st.config, update) THEN Warn(c, "Config already set")
  ELSE IF ~Truthy(Resolved(config)) THEN Warn(c, "Config must be an object")
  ELSE LET newConfig == config.cfg
           c1 == [c EXCEPT !.st.config =
                    IF update THEN Spread(@, newConfig) ELSE newConfig]
       IN Emit(c1, "config",
               ConfigEventArgs(newConfig, c1.st.config, c.self))

\* { ...currentValidators, ...validators }: a key the argument does not
\* have (NoValidator) keeps its current validator.
SpreadValidatorsReplace(current, validators) == validators
SpreadValidators(current, validators) ==
  [k \in AllKeys |-> IF validators[k] # NoValidator THEN validators[k]
                     ELSE current[k]]

\* validate(validators)
Validate(c, validators) ==
  SetConfig(c,
    CfgObj(Config({"validators"},
                  SpreadValidators(c.st.config.validators, validators), FALSE)),
    TRUE)

-----------------------------------------------------------------------------
(* Computed properties *)

\* The fields of the descriptor define passes to Object.defineProperty:
\* value, get, set, enumerable, configurable and the entry's other flags.
DescriptorFields(desc) ==
  {"value", "get", "set", "enumerable", "configurable"} \cup desc.rest

\* Object.defineProperty rejects (TypeError) a descriptor that has get or
\* set together with value or writable.
ValidDescriptor(fields) ==
  ~(fields \cap {"get", "set"} # {} /\ fields \cap {"value", "writable"} # {})

\* The callback define passes to onEntries, for entries i.. of `pairs`.
RECURSIVE DefineEntries(_, _, _)
DefineEntries(c, pairs, i) ==
  IF c.err # "none" \/ i > Len(pairs) THEN c
  ELSE LET k == pairs[i][1]
           desc == pairs[i][2]
       IN IF ~ValidDescriptor(DescriptorFields(desc)) THEN Throw(c, "TypeError")
          ELSE DefineEntries([c EXCEPT !.st.accessors = @ \cup {k}], pairs, i + 1)

\* define(entry)
Define(c, entry) ==
  IF Truthy(Resolved(entry)) THEN DefineEntries(c, EntriesOf(entry), 1)
  ELSE c

-----------------------------------------------------------------------------
(* The registry *)

\* A call in progress on the registry.
World(insts, list) ==
  [instances |-> insts, statesList |-> list, calls |-> <<>>, err |-> "none",
   warn |-> <<>>]

Registered(insts, name) == name \in DOMAIN insts

Register(insts, name, st) ==
  [n \in DOMAIN insts \cup {name} |-> IF n = name THEN st ELSE insts[n]]

\* The callback create passes to onEntries, for entries i.. of `defs`:
\* a new instance is registered only after its store call returned.
RECURSIVE CreateEntries(_, _, _)

\* GlobalState.#instances[name] = instance, once instance.store(states)
\* ended in context c; then the entries after the i-th.
Stored(w, defs, i, name, c) ==
  LET w1 == [w EXCEPT !.calls = @ \o c.calls,
                      !.warn = @ \o c.warn,
                      !.err = c.err]
  IN IF c.err # "none" THEN w1
     ELSE CreateEntries(
            [w1 EXCEPT !.instances = Register(@, name, c.st),
                       !.statesList = Append(@, name)],
            defs, i + 1)

CreateEntries(w, defs, i) ==
  IF w.err # "none" \/ i > Len(defs) THEN w
  ELSE LET name == defs[i][1]
           states == defs[i][2]
       IN IF ~Registered(w.instances, name)
          THEN Stored(w, defs, i, name,
                      Store(Ctx(name, NewInstance), states, TRUE))
          ELSE CreateEntries([w EXCEPT !.warn = Append(@, "Instance already exists")],
                             defs, i + 1)

\* GlobalState.create(instances)
Create(w, defs) == CreateEntries(w, onEntries(defs), 1)

\* The call at the end of the module, made when it is loaded.
ModuleLoad ==
  Create(World(<<>>, <<>>),
         << <<"aiDesigner", Obj(<<>>)>>,
            <<"gui", Obj(<< <<"editors", "wax">>, <<"menu", "files">> >>)>> >>)

-----------------------------------------------------------------------------
(* Calls: each action is one call made by a caller of the library *)

LastCall(op, name, ev, cb, flag, arg) ==
  [op |-> op, name |-> name, ev |-> ev, cb |-> cb, flag |-> flag, arg |-> arg]

Returned(kind, inst, ev, cb) ==
  [kind |-> kind, inst |-> inst, ev |-> ev, cb |-> cb]
RetThis(name) == Returned("this", name, "", "")
RetUndefined == Returned("undefined", "", "", "")
RetThrown == Returned("thrown", "", "", "")

Before == [instances |-> instances, statesList |-> statesList]

\* GlobalState.get(name).method(...): the method ran on the registered
\* instance and ended in context c, returning r unless it threw.
OnInstanceShared(name, c, call, r) ==
  /\ instances' = [n \in DOMAIN instances |-> c.st]
  /\ UNCHANGED <<statesList, mounted>>
  /\ pre' = Before
  /\ last' = call
  /\ calls' = c.calls
  /\ err' = c.err
  /\ warn' = c.warn
  /\ ret' = IF c.err = "none" THEN r ELSE RetThrown
OnInstance(name, c, call, r) ==
  /\ instances' = [instances EXCEPT ![name] = c.st]
  /\ UNCHANGED <<statesList, mounted>>
  /\ pre' = Before
  /\ last' = call
  /\ calls' = c.calls
  /\ err' = c.err
  /\ warn' = c.warn
  /\ ret' = IF c.err = "none" THEN r ELSE RetThrown

\* GlobalState.get(name).method(...) for a name that is not registered: get
\* warns and returns {}, and calling the missing method on it throws.
OnPlaceholder(name, call) ==
  /\ UNCHANGED <<instances, statesList, mounted>>
  /\ pre' = Before
  /\ last' = call
  /\ calls' = <<>>
  /\ err' = "TypeError"
  /\ warn' = <<"Instance not found">>
  /\ ret' = RetThrown

Method(name, c, call, r) ==
  IF Registered(instances, name) THEN OnInstance(name, c, call, r)
  ELSE OnPlaceholder(name, call)

\* The context a method of the instance registered as `name` starts in.
Self(name) ==
  Ctx(name, IF Registered(instances, name) THEN instances[name] ELSE NewInstance)

\* The listener records the instance holds, over all its events.
ListenersHeld(name) ==
  IF Registered(instances, name)
  THEN Len(instances[name].events["a"]) + Len(instances[name].events["b"])
       + Len(instances[name].events["config"])
       + Len(instances[name].events["a-update"])
       + Len(instances[name].events["b-update"])
  ELSE 0

OnAct(N, E, L, cap) ==
  \E name \in N, ev \in E, l \in L, overwrite \in BOOLEAN :
    /\ ListenersHeld(name) < cap
    /\ Method(name, On(Self(name), ev, l, overwrite),
              LastCall("on", name, ev, l, overwrite, <<>>),
              IF IsFunction(l) THEN Returned("unsubscribe", name, ev, l)
              ELSE RetThis(name))

OffAct(N, E, L) ==
  \E name \in N, ev \in E, l \in L :
    Method(name, Off(Self(name), ev, l),
           LastCall("off", name, ev, l, FALSE, <<>>), RetUndefined)

\* The function on returned, off.bind(this, eventName, listener), is called.
UnsubscribeAct ==
  /\ ret.kind = "unsubscribe"
  /\ OnInstance(ret.inst, Off(Self(ret.inst), ret.ev, ret.cb),
                LastCall("unsubscribe", ret.inst, ret.ev, ret.cb, FALSE, <<>>),
                RetUndefined)

EmitAct(N, E, A) ==
  \E name \in N, ev \in E, args \in A :
    Method(name, Emit(Self(name), ev, args),
           LastCall("emit", name, ev, "", FALSE, args), RetUndefined)

\* emit by a caller who stops emitting once the instance holds more than
\* cap listener records (a listener may register another at each emit).
EmitWhileAct(N, E, A, cap) ==
  \E name \in N, ev \in E, args \in A :
    /\ ListenersHeld(name) <= cap
    /\ Method(name, Emit(Self(name), ev, args),
              LastCall("emit", name, ev, "", FALSE, args), RetUndefined)

ClearAct(N, E) ==
  \E name \in N, ev \in E :
    Method(name, Clear(Self(name), ev),
           LastCall("clear", name, ev, "", FALSE, <<>>), RetUndefined)

StoreAct(N, S) ==
  \E name \in N, entry \in S, emit \in BOOLEAN :
    Method(name, Store(Self(name), entry, emit),
           LastCall("store", name, "", "", emit, entry), RetThis(name))

SetConfigAct(N, C) ==
  \E name \in N, config \in C, update \in BOOLEAN :
    Method(name, SetConfig(Self(name), config, update),
           LastCall("setConfig", name, "", "", update, config), RetThis(name))

ValidateAct(N, V) ==
  \E name \in N, validators \in V :
    Method(name, Validate(Self(name), validators),
           LastCall("validate", name, "", "", FALSE, validators), RetUndefined)

UpdateAct(N, U) ==
  \E name \in N, states \in U :
    Method(name, Update(Self(name), states),
           LastCall("update", name, "", "", FALSE, states), RetUndefined)

DefineAct(N, D) ==
  \E name \in N, entry \in D :
    Method(name, Define(Self(name), entry),
           LastCall("define", name, "", "", FALSE, entry), RetThis(name))

CreateAct(D) ==
  \E defs \in D :
    LET w == Create(World(instances, statesList), defs)
    IN /\ instances' = w.instances
       /\ statesList' = w.statesList
       /\ pre' = Before
       /\ last' = LastCall("create", "", "", "", FALSE, defs)
       /\ calls' = w.calls
       /\ err' = w.err
       /\ warn' = w.warn
       /\ ret' = IF w.err = "none" THEN Returned("GlobalState", "", "", "")
                 ELSE RetThrown
       /\ UNCHANGED mounted

-----------------------------------------------------------------------------
(* The hook of src/src/hooks/useGlobalEvents.js *)

\* The components that use the hook, each with the listeners object it
\* passes: the entries <<event name, callback>> in order.  header and
\* sidebar pass the same function for the same event; footer passes one
\* value that is not a function.
Consumers == {"header", "sidebar", "footer", "toolbar"}
HookListeners(consumer) ==
  CASE consumer = "header" -> << <<"a", "L1">> >>
    [] consumer = "sidebar" -> << <<"a", "L1">> >>
    [] consumer = "footer" -> << <<"a", "L2">>, <<"b", NotCallable>>, <<"b", "L1">> >>
    [] consumer = "toolbar" -> << <<"b", "L2">> >>

\* The effect: isFunction(cb) && instance.on(name, cb), for entries i.. .
RECURSIVE Effect(_, _, _)
Effect(c, listeners, i) ==
  IF c.err # "none" \/ i > Len(listeners) THEN c
  ELSE Effect(IF IsFunction(listeners[i][2])
              THEN On(c, listeners[i][1], listeners[i][2], FALSE)
              ELSE c,
              listeners, i + 1)

\* The cleanup the effect returns: isFunction(listener) &&
\* instance.off(name, listener), for entries i.. .
RECURSIVE Cleanup(_, _, _)
Cleanup(c, listeners, i) ==
  IF c.err # "none" \/ i > Len(listeners) THEN c
  ELSE Cleanup(IF IsFunction(listeners[i][2])
               THEN Off(c, listeners[i][1], listeners[i][2])
               ELSE c,
               listeners, i + 1)

\* A component's effect or cleanup ran on the instance registered as name
\* and ended in context c; the hook had returned the instance.
HookRan(name, c, call, nowMounted) ==
  /\ instances' = [instances EXCEPT ![name] = c.st]
  /\ UNCHANGED statesList
  /\ pre' = Before
  /\ last' = call
  /\ calls' = c.calls
  /\ err' = c.err
  /\ warn' = c.warn
  /\ ret' = IF c.err = "none" THEN RetThis(name) ELSE RetThrown
  /\ mounted' = nowMounted

\* A component that uses useGlobalEvents(name, listeners) mounts.
MountAct(N, C) ==
  \E name \in N, consumer \in C \ mounted :
    /\ Registered(instances, name)
    /\ HookRan(name, Effect(Self(name), onEntries(HookListeners(consumer)), 1),
               LastCall("mount", name, "", "", FALSE, consumer),
               mounted \cup {consumer})

\* A mounted component unmounts.
UnmountAct(N, C) ==
  \E name \in N, consumer \in C \cap mounted :
    /\ Registered(instances, name)
    /\ HookRan(name, Cleanup(Self(name), onEntries(HookListeners(consumer)), 1),
               LastCall("unmount", name, "", "", FALSE, consumer),
               mounted \ {consumer})

-----------------------------------------------------------------------------
(* The arguments the callers draw from *)

\* Plain objects over Keys with at most two entries, in either key order.
ObjectPairs ==
  {<<>>}
  \cup {<< <<k, v>> >> : k \in Keys, v \in Values}
  \cup {<< <<ks[1], v1>>, <<ks[2], v2>> >> :
          ks \in {q \in Keys \X Keys : q[1] # q[2]}, v1 \in Values, v2 \in Values}

StoreArgs ==
  {Obj(p) : p \in ObjectPairs}
  \cup {Fn(<< <<"a", "v1">> >>), Other("number"), Other("array"), Other("null"),
        Other("string"), Other("boolean"), Other("undefined")}

EmitArgs == {<<>>, <<"v1", "v0">>}

ValidatorMaps ==
  {[k \in AllKeys |-> IF k = "a" THEN va ELSE IF k = "b" THEN vb ELSE NoValidator] :
     va \in {NoValidator, "onlyV1"}, vb \in {NoValidator, "acceptAll"}}

ConfigArgs ==
  {CfgObj(Config(has, v, TRUE)) :
     has \in SUBSET {"validators", "emitOnStateSet"},
     v \in {m \in ValidatorMaps : m["b"] = NoValidator}}
  \cup {CfgOther("number")}

Descriptor(state, rest) == [state |-> state, rest |-> rest]

DefineArgs ==
  {Obj(<<>>), Other("number")}
  \cup {Obj(<< <<k, Descriptor(s, r)>> >>) :
          k \in Keys, s \in Values, r \in {{}, {"writable"}}}

RegistryStoreArgs == {Obj(<< <<"a", "v1">> >>), Obj(<< <<"b", "v0">> >>)}
RegistryValidators == {NoValidators}
RegistryConfigs == {CfgObj(Config({"validators"}, NoValidators, FALSE))}
RegistryUpdates == {Obj(<< <<"a", "v0">> >>)}
StoreNames == {"aiDesigner"}
BusNames == {"aiDesigner", "doesNotExist"}
BusEvents == {"a", "b"}

\* setConfig arguments of every shape: config objects, functions returning
\* one, functions returning a number, an array or null, and values that are
\* neither objects nor functions.
ConfigShapes ==
  ConfigArgs
  \cup {CfgObj(Config({"emitOnStateSet"}, NoValidators, FALSE)),
        CfgFn(Config({"emitOnStateSet"}, NoValidators, TRUE)),
        CfgFnReturning("number"), CfgFnReturning("array"),
        CfgFnReturning("null"),
        CfgOther("null"), CfgOther("array"), CfgOther("string")}
ConfigValidators == {m \in ValidatorMaps : m["a"] = NoValidator \/ m["b"] = NoValidator}
ConfigEvents == {"config", "a", "a-update"}
ReentrantConfigs ==
  {CfgObj(Config({"validators"}, NoValidators, FALSE)),
   CfgObj(Config({"validators", "emitOnStateSet"}, NoValidators, TRUE))}
ReentrantStoreArgs ==
  {Obj(<< <<"a", "v0">> >>), Obj(<< <<"a", "v1">> >>), Obj(<< <<"b", "v0">> >>),
   Obj(<< <<"a", "v1">>, <<"b", "v0">> >>),
   FnValidating(ListenerValidators, << <<"b", "v0">> >>)}
RewriteStoreArgs ==
  {Obj(<< <<"a", "v0">> >>), Obj(<< <<"a", "v1">> >>), Obj(<< <<"b", "v0">> >>),
   Obj(<< <<"b", "v1">>, <<"a", "v0">> >>)}
UpdateArgs == {Obj(<< <<"a", "v0">> >>), Obj(<< <<"b", "v1">>, <<"a", "v0">> >>)}

CreateArgs ==
  {<< <<n, Obj(p)>> >> : n \in Names, p \in {<<>>, << <<"a", "v0">> >>}}
  \cup {<< <<"gui", Obj(<<>>)>>, <<"aiDesigner", Obj(<< <<"a", "v1">> >>)>> >>}

-----------------------------------------------------------------------------
(* Specifications *)

\* The state the module is in once it was loaded: the create call at its
\* end has run.
Init ==
  /\ instances = ModuleLoad.instances
  /\ statesList = ModuleLoad.statesList
  /\ pre = [instances |-> <<>>, statesList |-> <<>>]
  /\ last = LastCall("load", "", "", "", FALSE, <<>>)
  /\ calls = ModuleLoad.calls
  /\ err = ModuleLoad.err
  /\ warn = ModuleLoad.warn
  /\ ret = RetThrown
  /\ mounted = {}

AnyName == Names \cup UnknownNames

\* The registry: both names and an unknown one, with few arguments.
Next ==
  \/ CreateAct(CreateArgs)
  \/ StoreAct(AnyName, RegistryStoreArgs)
  \/ ValidateAct(AnyName, RegistryValidators)
  \/ OnAct(AnyName, {"a"}, {"L1"}, MaxRegistryListeners)
  \/ SetConfigAct(AnyName, RegistryConfigs)
  \/ UpdateAct(AnyName, RegistryUpdates)
  \/ OffAct(AnyName, {"a"}, {"L1"})
  \/ ClearAct(AnyName, {"a"})
  \/ EmitAct(AnyName, {"a"}, {<<>>})

Spec == Init /\ [][Next]_vars

\* One instance's write path, configuration and computed properties.
NextStore ==
  \/ StoreAct(StoreNames, StoreArgs)
  \/ SetConfigAct(StoreNames, ConfigArgs)
  \/ ValidateAct(StoreNames, ValidatorMaps)
  \/ DefineAct(StoreNames, DefineArgs)
  \/ OnAct(StoreNames, Keys, {"L1", NotCallable}, MaxStoreListeners)

SpecStore == Init /\ [][NextStore]_vars

\* One instance's event bus.
NextBus ==
  \/ OnAct(BusNames, BusEvents, BusListeners \cup {NotCallable}, MaxListeners)
  \/ OffAct(BusNames, BusEvents, BusListeners)
  \/ UnsubscribeAct
  \/ EmitAct(BusNames, BusEvents, EmitArgs)
  \/ ClearAct(BusNames, BusEvents)

SpecBus == Init /\ [][NextBus]_vars

\* One instance's configuration, and update, which goes round it.
NextConfig ==
  \/ SetConfigAct(StoreNames, ConfigShapes)
  \/ ValidateAct(StoreNames, ConfigValidators)
  \/ UpdateAct(StoreNames, UpdateArgs)
  \/ OnAct(StoreNames, ConfigEvents, {"L1"}, MaxConfigListeners)

SpecConfig == Init /\ [][NextConfig]_vars

\* One event's dispatch, with listeners that subscribe, unsubscribe and
\* clear while they are being invoked.
NextDispatch ==
  \/ OnAct(StoreNames, {"a"}, DispatchListeners, MaxDispatchListeners)
  \/ OffAct(StoreNames, {"a"}, {"L1", "Lon"})
  \/ ClearAct(StoreNames, {"a"})
  \/ EmitWhileAct(StoreNames, {"a"}, {<<"v1">>}, MaxDispatchListeners)

SpecDispatch == Init /\ [][NextDispatch]_vars

\* One instance's write path with listeners of a that store b or install a
\* validator for b, and entries that install one; the listeners of b make
\* no further calls.
NextReentrant ==
  \/ SetConfigAct(StoreNames, ReentrantConfigs)
  \/ StoreAct(StoreNames, ReentrantStoreArgs)
  \/ OnAct(StoreNames, {"a"}, {"L1", "Lstore", "Lvalidate"}, MaxReentrantListeners)
  \/ OnAct(StoreNames, {"b"}, {"L1", "L2"}, MaxReentrantListeners)

SpecReentrant == Init /\ [][NextReentrant]_vars

\* The components of one instance mount and unmount, and the instance emits.
NextHook ==
  \/ MountAct(StoreNames, Consumers)
  \/ UnmountAct(StoreNames, Consumers)
  \/ EmitAct(StoreNames, Keys, {<<>>})

SpecHook == Init /\ [][NextHook]_vars

\* One instance's write path with a listener of a that writes a again.
NextRewrite ==
  \/ SetConfigAct(StoreNames, ReentrantConfigs)
  \/ StoreAct(StoreNames, RewriteStoreArgs)
  \/ OnAct(StoreNames, {"a"}, {"L1", "L2", "Lrewrite"}, MaxRewriteListeners)
  \/ OnAct(StoreNames, {"b"}, {"L1"}, MaxRewriteListeners)

SpecRewrite == Init /\ [][NextRewrite]_vars

-----------------------------------------------------------------------------
(* Properties.  pre is the registry before the last call, so each is a     *)
(* statement about one call: what it was given, what it found, what it     *)
(* left.                                                                   *)

Range(seq) == {seq[i] : i \in DOMAIN seq}

\* The last call was method op of an instance that was registered.
Called(op) == last.op = op /\ Registered(pre.instances, last.name)
PreOf == pre.instances[last.name]
PostOf == instances[last.name]

\* One invocation of each record of seq, in order, by an emit the caller
\* made (Bus) or one a store made, with the given arguments.
Deliveries(inst, ev, seq, args) ==
  [i \in DOMAIN seq |->
     [inst |-> inst, ev |-> ev, cb |-> seq[i], args |-> args, depth |-> 1]]

CallsFor(ev) == SelectSeq(calls, LAMBDA call : call.ev = ev)

IsPlainObject(arg) == arg.t = "object"

\* C1: on an instance registered with the plain object {k: v0} and never
\* configured, on(k, L) then store({k: v1}) invokes L exactly once with
\* (v0, v1, instance) and read(k) is v1; neither the registration nor the
\* store raises an error.  Stated per call: a registration of a new name
\* with a plain object raises nothing, registers the name and stores the
\* object's values; a store of {k: v} with the default emit on a
\* never-configured instance raises nothing, invokes each listener of k once
\* with (previous value, v, instance) and leaves read(k) = v.
C1_RegisterThenStore ==
  /\ last.op = "create" =>
       \A i \in DOMAIN last.arg :
         LET n == last.arg[i][1]
             s == last.arg[i][2]
         IN (~Registered(pre.instances, n) /\ IsPlainObject(s)) =>
              /\ err = "none"
              /\ Registered(instances, n)
              /\ \A j \in DOMAIN s.pairs :
                   Read(instances[n], s.pairs[j][1]) = s.pairs[j][2]
  /\ (Called("store") /\ PreOf.config = EmptyConfig /\ last.flag
        /\ IsPlainObject(last.arg) /\ Len(last.arg.pairs) = 1) =>
       LET k == last.arg.pairs[1][1]
           v == last.arg.pairs[1][2]
       IN /\ err = "none"
          /\ calls = Deliveries(last.name, k, PreOf.events[k],
                                <<PreOf.stored[k], v, last.name>>)
          /\ Read(PostOf, k) = v

\* C2: registering a name twice leaves exactly one instance under it, the
\* one the first registration made, holding the first initial state, and
\* the name is listed once.  Stated per create call: a name that was
\* registered keeps its instance untouched; a name that was not is now
\* registered with the values of the plain object given; every registered
\* name is listed exactly once.
C2_FirstRegistrationWins ==
  last.op = "create" =>
    /\ \A i \in DOMAIN last.arg :
         LET n == last.arg[i][1]
             s == last.arg[i][2]
         IN /\ Registered(pre.instances, n) =>
                 /\ Registered(instances, n)
                 /\ instances[n] = pre.instances[n]
            /\ (~Registered(pre.instances, n) /\ IsPlainObject(s)) =>
                 /\ Registered(instances, n)
                 /\ \A j \in DOMAIN s.pairs :
                      Read(instances[n], s.pairs[j][1]) = s.pairs[j][2]
    /\ \A n \in DOMAIN instances :
         Cardinality({i \in DOMAIN statesList : statesList[i] = n}) = 1

\* C3: getInstance(name).store(entry) for a name that is not registered
\* raises no error and leaves every registered instance's stored values,
\* listeners and config unchanged.
C3_UnknownInstanceStoreIsNoOp ==
  (last.op = "store" /\ ~Registered(pre.instances, last.name)) =>
    /\ err = "none"
    /\ instances = pre.instances

\* The store call emits: its emit argument or the configured emitOnStateSet.
Emitting == last.flag \/ PreOf.config.emitOnStateSet

\* The validator registered for key k before the call allows value v; with
\* no validator for k the value is allowed.
Allowed(k, v) ==
  LET id == PreOf.config.validators[k]
  IN id = NoValidator \/ ValidatorResult(id, v)

\* C4: a store of a two-key plain object where the validator of one key
\* rejects its new value and the other key's validator accepts or is
\* absent: the accepted key reads the new value, the rejected key reads what
\* it read before, no listener of the rejected key is invoked and, when the
\* call emits, the listeners of the accepted key are invoked with (previous
\* value, new value, instance); in either order of the two keys.
C4_PartialApply ==
  (Called("store") /\ IsPlainObject(last.arg) /\ Len(last.arg.pairs) = 2) =>
    \A r \in {1, 2} :
      LET kr == last.arg.pairs[r][1]
          vr == last.arg.pairs[r][2]
          ka == last.arg.pairs[3 - r][1]
          va == last.arg.pairs[3 - r][2]
      IN (PreOf.config.validators[kr] # NoValidator /\ ~Allowed(kr, vr)
            /\ Allowed(ka, va)) =>
           /\ err = "none"
           /\ Read(PostOf, ka) = va
           /\ Read(PostOf, kr) = Read(PreOf, kr)
           /\ CallsFor(kr) = <<>>
           /\ Emitting =>
                CallsFor(ka) = Deliveries(last.name, ka, PreOf.events[ka],
                                          <<Read(PreOf, ka), va, last.name>>)

\* A rejected key coming first and an accepted one second, both with a
\* listener: only the accepted key's listener ran, the rejected key kept a
\* value it had been given before.
C4_Witness ==
  /\ Called("store") /\ IsPlainObject(last.arg) /\ err = "none"
  /\ last.arg.pairs = << <<"a", "v0">>, <<"b", "v1">> >>
  /\ PreOf.config.validators["a"] = "onlyV1"
  /\ Read(PreOf, "a") = "v1" /\ Read(PostOf, "a") = "v1"
  /\ Read(PreOf, "b") = "v0" /\ Read(PostOf, "b") = "v1"
  /\ Len(PreOf.events["a"]) = 1 /\ Len(PreOf.events["b"]) = 1
  /\ Len(calls) = 1 /\ calls[1].ev = "b"

\* C5: for every store call of a plain object: every accepted key is
\* written; with emit false and emitOnStateSet not true no listener is
\* invoked; with either true the listeners of each accepted key are invoked
\* with (previous value, new value, instance), the previous value being
\* undefined for a key never written.
C5_EmissionPolicy ==
  (Called("store") /\ IsPlainObject(last.arg)) =>
    /\ \A i \in DOMAIN last.arg.pairs :
         LET k == last.arg.pairs[i][1]
             v == last.arg.pairs[i][2]
         IN Allowed(k, v) =>
              /\ Read(PostOf, k) = v
              /\ Emitting =>
                   CallsFor(k) = Deliveries(last.name, k, PreOf.events[k],
                                            <<Read(PreOf, k), v, last.name>>)
    /\ ~Emitting => calls = <<>>

\* C6: after define({k: {state: s0, set}}) reading k returns s0 (and a later
\* write through the installed setter is committed and readable): the define
\* call raises no error and k reads s0.
C6_DefineRoundTrip ==
  (Called("define") /\ IsPlainObject(last.arg) /\ Len(last.arg.pairs) = 1) =>
    /\ err = "none"
    /\ Read(PostOf, last.arg.pairs[1][1]) = last.arg.pairs[1][2].state

Callbacks(cs) == [i \in DOMAIN cs |-> cs[i].cb]

\* Every part of the instance but the listener array of event ev is as it
\* was before the call.
OnlyEventChanged(ev) ==
  /\ PostOf.stored = PreOf.stored
  /\ PostOf.config = PreOf.config
  /\ PostOf.accessors = PreOf.accessors
  /\ \A e \in EventNames \ {ev} :
       /\ PostOf.events[e] = PreOf.events[e]
       /\ (e \in PostOf.evKeys) = (e \in PreOf.evKeys)

\* C7: a listener of event a that calls off(a, itself) while emit(a) invokes
\* it raises no error, and every record registered for a when the emit began
\* is still invoked exactly once, in order; the listener is registered for a
\* no longer, and an emit of a while it is not registered never invokes it.
C7_SelfRemovalDuringEmit ==
  (Called("emit") /\ last.ev = "a") =>
    /\ "Loff" \in Range(PreOf.events["a"]) =>
         /\ err = "none"
         /\ Callbacks(calls) = PreOf.events["a"]
         /\ "Loff" \notin Range(PostOf.events["a"])
         /\ \A l \in Listeners \ {"Loff"} :
              Len(SelectSeq(PostOf.events["a"], LAMBDA cb : cb = l))
                = Len(SelectSeq(PreOf.events["a"], LAMBDA cb : cb = l))
    /\ "Loff" \notin Range(PreOf.events["a"]) =>
         "Loff" \notin Range(Callbacks(calls))

\* The self-removing listener came first of three: the two after it ran.
C7_Witness ==
  /\ Called("emit") /\ last.ev = "a" /\ err = "none"
  /\ PreOf.events["a"] = <<"Loff", "L1", "L2">>
  /\ Callbacks(calls) = <<"Loff", "L1", "L2">>
  /\ PostOf.events["a"] = <<"L1", "L2">>

\* C8: emit(eventName, ...args) invokes every record registered for
\* eventName exactly once, in registration order, each with exactly args,
\* and nothing else: no listener of another event, nothing at all when the
\* event has no listeners; it raises no error.
C8_EmitInRegistrationOrder ==
  Called("emit") =>
    /\ err = "none"
    /\ calls = Deliveries(last.name, last.ev, PreOf.events[last.ev], last.arg)

\* A callback registered twice around another one: invoked twice, in order,
\* with the two arguments given.
C8_Witness ==
  /\ Called("emit") /\ last.ev = "b" /\ last.arg = <<"v1", "v0">>
  /\ Callbacks(calls) = <<"L1", "L2", "L1">>
  /\ \A i \in DOMAIN calls : calls[i].args = <<"v1", "v0">> /\ calls[i].ev = "b"
  /\ PreOf.events["a"] # <<>>

\* C9: off(eventName, listener), and the function on(eventName, listener)
\* returned, removes every record of eventName whose callback is listener,
\* keeps the other records in order and leaves everything else of the
\* instance as it was; an emit of an event never invokes a callback that has
\* no record for it.
C9_OffRemovesAllMatches ==
  /\ (Called("off") \/ Called("unsubscribe")) =>
       /\ err = "none"
       /\ last.cb \notin Range(PostOf.events[last.ev])
       /\ PostOf.events[last.ev]
            = SelectSeq(PreOf.events[last.ev], LAMBDA cb : cb # last.cb)
       /\ (last.ev \in PostOf.evKeys) = (last.ev \in PreOf.evKeys)
       /\ OnlyEventChanged(last.ev)
  /\ Called("emit") =>
       \A l \in Listeners :
         l \notin Range(PreOf.events[last.ev]) => l \notin Range(Callbacks(calls))

\* The unsubscribe function of the second registration of L1 removed both
\* records of L1 and kept L2, another event's listener staying.
C9_Witness ==
  /\ Called("unsubscribe") /\ last.cb = "L1" /\ last.ev = "a"
  /\ PreOf.events["a"] = <<"L1", "L2", "L1">>
  /\ PostOf.events["a"] = <<"L2">>

\* C10: on(eventName, listener, options) with a callable listener: without
\* overwrite the event's sequence is the previous one with listener
\* appended (created when absent); with overwrite it is exactly <<listener>>,
\* whether the previous one was non-empty, empty or absent.
\* clear(eventName) leaves eventName without listeners and the other events
\* as they were.
C10_OnAppendsOrOverwrites ==
  /\ (Called("on") /\ IsFunction(last.cb)) =>
       /\ err = "none"
       /\ last.ev \in PostOf.evKeys
       /\ ~last.flag =>
            PostOf.events[last.ev] = PreOf.events[last.ev] \o <<last.cb>>
       /\ last.flag => PostOf.events[last.ev] = <<last.cb>>
       /\ OnlyEventChanged(last.ev)
  /\ Called("clear") =>
       /\ err = "none"
       /\ PostOf.events[last.ev] = <<>>
       /\ last.ev \notin PostOf.evKeys
       /\ OnlyEventChanged(last.ev)

\* on with overwrite found two listeners and left only the new one.
C10_Witness ==
  /\ Called("on") /\ last.flag /\ last.cb = "L2" /\ last.ev = "a"
  /\ PreOf.events["a"] = <<"L1", "Loff">>
  /\ PostOf.events["a"] = <<"L2">>
  /\ PreOf.events["b"] = <<"L1">> /\ PostOf.events["b"] = <<"L1">>

\* C11: once a setConfig call has succeeded on an instance, every later
\* setConfig call without the update flag does nothing: the config is
\* unchanged, no listener of 'config' is invoked and the instance is
\* returned, whatever config the first call installed.  Stated for the call
\* that follows a successful setConfig of a plain object.
C11_ConfigSetOnce ==
  [][(/\ last.op = "setConfig"
      /\ Registered(instances, last.name)
      /\ IsPlainObject(last.arg)
      /\ err = "none"
      /\ warn = <<>>
      /\ last'.op = "setConfig"
      /\ last'.name = last.name
      /\ ~last'.flag)
     => (/\ err' = "none"
         /\ instances'[last.name].config = instances[last.name].config
         /\ calls' = <<>>
         /\ ret' = RetThis(last.name))]_vars

\* The entries store rejects: values that are neither a plain object nor a
\* function.
NonObjectTags == {"number", "string", "boolean", "undefined", "null", "array"}

\* C12: rejected calls change nothing.  store(entry) with an entry that is
\* a number, a string, a boolean, undefined, null or an array, and
\* on(eventName, listener) with a listener that is not callable, raise no
\* error, return the instance, invoke no listener and leave the instance's
\* stored values, listeners and config exactly as they were.
C12_RejectedCallsChangeNothing ==
  ((Called("store") /\ last.arg.t \in NonObjectTags)
     \/ (Called("on") /\ last.cb = NotCallable)) =>
    /\ err = "none"
    /\ ret = RetThis(last.name)
    /\ calls = <<>>
    /\ instances = pre.instances

\* store(null) with the default emit on a configured instance that holds a
\* value and a listener.
C12_Witness ==
  /\ Called("store")
  /\ last.arg.t = "null"
  /\ last.flag
  /\ PreOf.config.has # {}
  /\ PreOf.stored["a"] # Undefined
  /\ PreOf.events["a"] # <<>>
  /\ ret = RetThis(last.name)

\* The invocations update makes for entries i.. of pairs: for each key, the
\* listeners of '<key>-update', each with the new value alone.
RECURSIVE UpdateDeliveries(_, _, _, _)
UpdateDeliveries(inst, events, pairs, i) ==
  IF i > Len(pairs) THEN <<>>
  ELSE Deliveries(inst, UpdateEvent(pairs[i][1]),
                  events[UpdateEvent(pairs[i][1])], <<pairs[i][2]>>)
       \o UpdateDeliveries(inst, events, pairs, i + 1)

\* C13: update(states) assigns every key of states whether or not a
\* validator registered for the key would reject the value, and for each
\* key invokes the listeners of '<key>-update', once each, with the new
\* value as only argument, whatever emitOnStateSet is; it invokes no
\* listener of the plain key event.
C13_UpdateBypassesValidators ==
  Called("update") =>
    /\ err = "none"
    /\ \A i \in DOMAIN last.arg.pairs :
         Read(PostOf, last.arg.pairs[i][1]) = last.arg.pairs[i][2]
    /\ \A k \in AllKeys :
         (\A i \in DOMAIN last.arg.pairs : last.arg.pairs[i][1] # k) =>
           Read(PostOf, k) = Read(PreOf, k)
    /\ calls = UpdateDeliveries(last.name, PreOf.events, last.arg.pairs, 1)
    /\ \A k \in Keys : CallsFor(k) = <<>>
    /\ PostOf.config = PreOf.config
    /\ PostOf.events = PreOf.events

\* update({a: "v0"}) where the validator of a rejects v0, emitOnStateSet is
\* configured false and both 'a' and 'a-update' have a listener.
C13_Witness ==
  /\ Called("update")
  /\ \E i \in DOMAIN last.arg.pairs : last.arg.pairs[i] = <<"a", "v0">>
  /\ PreOf.config.validators["a"] = "onlyV1"
  /\ "emitOnStateSet" \in PreOf.config.has
  /\ ~PreOf.config.emitOnStateSet
  /\ PreOf.events["a"] # <<>>
  /\ PreOf.events["a-update"] # <<>>
  /\ Read(PostOf, "a") = "v0"
  /\ calls # <<>>

\* The setConfig call was given a plain object, or a function returning
\* one, and was not turned down.
ConfigInstalled ==
  /\ Called("setConfig")
  /\ Resolved(last.arg) = "object"
  /\ err = "none"
  /\ warn = <<>>

\* C14: every successful setConfig call invokes the listeners of 'config',
\* once each, with the config in effect on the instance after the call
\* (for update = true the merge of the previous config and the supplied
\* one) and the instance.
C14_ConfigEventCarriesEffectiveConfig ==
  ConfigInstalled =>
    calls = Deliveries(last.name, "config", PreOf.events["config"],
                       <<PostOf.config, last.name>>)

\* C15: setValidators(V) merges.  Afterwards the validator of each key in V
\* is the one from V, the validator of every other key is the one it had,
\* and the other config options are unchanged; the call succeeds on an
\* instance with no config and on one whose config is already set.
C15_ValidateMerges ==
  Called("validate") =>
    /\ err = "none"
    /\ warn = <<>>
    /\ "validators" \in PostOf.config.has
    /\ \A k \in AllKeys :
         PostOf.config.validators[k] =
           IF last.arg[k] # NoValidator THEN last.arg[k]
           ELSE PreOf.config.validators[k]
    /\ PostOf.config.has \ {"validators"} = PreOf.config.has \ {"validators"}
    /\ PostOf.config.emitOnStateSet = PreOf.config.emitOnStateSet

\* validate({b: acceptAll}) on an instance configured with a validator for
\* a and emitOnStateSet true.
C15_Witness ==
  /\ Called("validate")
  /\ last.arg["a"] = NoValidator
  /\ last.arg["b"] = "acceptAll"
  /\ PreOf.config.validators["a"] = "onlyV1"
  /\ PreOf.config.emitOnStateSet
  /\ PostOf.config.validators["a"] = "onlyV1"
  /\ PostOf.config.validators["b"] = "acceptAll"

\* C18: a setConfig call whose argument resolves to anything but a plain
\* object (given directly as a primitive, null or an array, or as a
\* function returning one) raises no error, leaves the config unchanged,
\* invokes no listener of 'config' and returns the instance.
C18_NonObjectConfigRejected ==
  (Called("setConfig") /\ Resolved(last.arg) # "object") =>
    /\ err = "none"
    /\ PostOf.config = PreOf.config
    /\ calls = <<>>
    /\ ret = RetThis(last.name)

\* The listener array of event a once the listeners of seq, from the i-th
\* on, have each done what they do to it, starting from list.
RECURSIVE AfterListeners(_, _, _)
AfterListeners(seq, list, i) ==
  IF i > Len(seq) THEN list
  ELSE AfterListeners(seq,
         CASE seq[i] = "Lon" -> Append(list, "L2")
           [] seq[i] = "Lover" -> <<"L2">>
           [] seq[i] = "Lother" -> SelectSeq(list, LAMBDA cb : cb # "L1")
           [] seq[i] = "Lclear" -> <<>>
           [] OTHER -> list,
         i + 1)

\* C16: the listeners an emit(x) invokes are fixed when the emit begins.  A
\* listener that calls on(x, L2), with or without overwrite, off(x, other)
\* or clear(x) while it is invoked changes neither which listeners the
\* emit in flight invokes nor their order: each record registered when it
\* began is invoked exactly once, in order.  The additions and removals are
\* in the listener array afterwards, for the next emit(x).
C16_DispatchFixedAtStart ==
  (Called("emit") /\ last.ev = "a" /\ "Loff" \notin Range(PreOf.events["a"])) =>
    /\ err = "none"
    /\ calls = Deliveries(last.name, "a", PreOf.events["a"], last.arg)
    /\ PostOf.events["a"]
         = AfterListeners(PreOf.events["a"], PreOf.events["a"], 1)
    /\ OnlyEventChanged("a")

\* An emit over at least three records, the first of which subscribes,
\* overwrites, unsubscribes another or clears, and which left the array
\* different from the one it walked.
C16_Witness ==
  /\ Called("emit")
  /\ last.ev = "a"
  /\ Len(PreOf.events["a"]) >= 3
  /\ PreOf.events["a"][1] \in {"Lother", "Lclear", "Lover"}
  /\ "L1" \in Range(PreOf.events["a"])
  /\ "Lon" \in Range(PreOf.events["a"])
  /\ Len(calls) = Len(PreOf.events["a"])
  /\ PostOf.events["a"] # PreOf.events["a"]

\* The validator for key k once validate(installed) was applied to config.
ValidatorAfter(config, installed, k) ==
  IF installed[k] # NoValidator THEN installed[k] ELSE config.validators[k]

\* C17: in a store call the entry is resolved first and the validator
\* consulted for key k is the one registered at the moment k is processed,
\* so a validator installed during the same call decides whether k is
\* written.  Stated for an instance whose config has validators: when the
\* function entry installs a validator before returning {k: v}, and when a
\* listener of a installs one for b during store({a: .., b: v}), k (b) is
\* written only if the installed validator allows v.
C17_ValidatorAtProcessingTime ==
  (Called("store") /\ "validators" \in PreOf.config.has) =>
    /\ ("fx" \in DOMAIN last.arg /\ Len(last.arg.pairs) = 1) =>
         LET k == last.arg.pairs[1][1]
             v == last.arg.pairs[1][2]
             id == ValidatorAfter(PreOf.config, last.arg.fx, k)
         IN (id # NoValidator /\ ~ValidatorResult(id, v)) =>
              Read(PostOf, k) = Read(PreOf, k)
    /\ (/\ IsPlainObject(last.arg)
        /\ Len(last.arg.pairs) = 2
        /\ last.arg.pairs[1][1] = "a"
        /\ last.arg.pairs[2][1] = "b"
        /\ Emitting
        /\ Allowed("a", last.arg.pairs[1][2])
        /\ "Lvalidate" \in Range(PreOf.events["a"])) =>
         LET v == last.arg.pairs[2][2]
             id == ValidatorAfter(PreOf.config, ListenerValidators, "b")
         IN ~ValidatorResult(id, v) => Read(PostOf, "b") = Read(PreOf, "b")

\* What a store({a: v}) that emits invokes, from the i-th listener of a on:
\* each listener of a with (prevA, v, instance), and right after one that
\* stores b, every listener of b with (the value b had, the value stored,
\* instance), one level down.
RECURSIVE ReentrantDeliveries(_, _, _, _, _, _, _)
ReentrantDeliveries(inst, onA, onB, i, prevA, v, prevB) ==
  IF i > Len(onA) THEN <<>>
  ELSE << [inst |-> inst, ev |-> "a", cb |-> onA[i],
           args |-> <<prevA, v, inst>>, depth |-> 1] >>
       \o (IF onA[i] = "Lstore"
           THEN [j \in DOMAIN onB |->
                   [inst |-> inst, ev |-> ListenerStoreKey, cb |-> onB[j],
                    args |-> <<prevB, ListenerStoreValue, inst>>, depth |-> 2]]
           ELSE <<>>)
       \o ReentrantDeliveries(inst, onA, onB, i + 1, prevA, v,
             IF onA[i] = "Lstore" THEN ListenerStoreValue ELSE prevB)

\* C19: when a listener of a calls store({b: v}) on the same instance while
\* a write of a is dispatched, and the listeners of b make no further
\* calls, the listeners of b are all invoked with (previous b, v, instance)
\* before the remaining listeners of a; every listener of a is still
\* invoked exactly once, with the arguments of the original write; both
\* listener sequences are unchanged; the outer store returns.
C19_ReentrantStore ==
  (/\ Called("store")
   /\ "validators" \in PreOf.config.has
   /\ IsPlainObject(last.arg)
   /\ Len(last.arg.pairs) = 1
   /\ last.arg.pairs[1][1] = "a"
   /\ Emitting
   /\ Allowed("a", last.arg.pairs[1][2])) =>
    /\ err = "none"
    /\ ret = RetThis(last.name)
    /\ calls = ReentrantDeliveries(last.name, PreOf.events["a"],
                                   PreOf.events["b"], 1, PreOf.stored["a"],
                                   last.arg.pairs[1][2], PreOf.stored["b"])
    /\ PostOf.events = PreOf.events
    /\ Read(PostOf, "a") = last.arg.pairs[1][2]
    /\ "Lstore" \in Range(PreOf.events["a"]) =>
         Read(PostOf, "b") = ListenerStoreValue

\* store({a: v}) where a's listeners are the storing one and then another,
\* and b has a listener and a value.
C19_Witness ==
  /\ Called("store")
  /\ IsPlainObject(last.arg)
  /\ last.arg.pairs = << <<"a", "v1">> >>
  /\ Len(PreOf.events["a"]) = 2
  /\ PreOf.events["a"][1] = "Lstore"
  /\ PreOf.events["a"][2] = "L1"
  /\ PreOf.events["b"] # <<>>
  /\ PreOf.stored["b"] = "v0"
  /\ Len(calls) = 3
  /\ calls[2].ev = "b"
  /\ calls[2].args = <<"v0", "v1", last.name>>
  /\ calls[3].cb = "L1"
  /\ err = "none"

\* The methods of an instance.
InstanceOps ==
  {"store", "update", "setConfig", "validate", "on", "off", "clear", "emit"}

\* C20: instances are isolated.  A store, update, setConfig, setValidators,
\* on, off, clear or emit call on instance A leaves every other instance's
\* stored values, listeners and config unchanged and invokes no listener
\* registered on another instance, also when both use the same keys and
\* event names.
C20_InstanceIsolation ==
  (last.op \in InstanceOps /\ Registered(pre.instances, last.name)) =>
    /\ \A n \in Names \ {last.name} :
         /\ Registered(instances, n) = Registered(pre.instances, n)
         /\ Registered(pre.instances, n) => instances[n] = pre.instances[n]
    /\ \A i \in DOMAIN calls : calls[i].inst = last.name

\* A store on aiDesigner that wrote a and invoked its listener of a, while
\* gui holds another value under a and a listener of a of its own.
C20_Witness ==
  /\ Called("store")
  /\ last.name = "aiDesigner"
  /\ err = "none"
  /\ calls # <<>>
  /\ Registered(pre.instances, "gui")
  /\ pre.instances["gui"].events["a"] # <<>>
  /\ pre.instances["gui"].stored["a"] # Undefined
  /\ PostOf.stored["a"] # PreOf.stored["a"]
  /\ PostOf.stored["a"] # instances["gui"].stored["a"]

\* C21: after any interleaving of mounts and unmounts of components that
\* use the hook on one registered instance, also when two pass the same
\* callback for the same event, every callback of a mounted component is
\* registered for its event and no callback that only unmounted components
\* passed is registered.
C21_MountedStaySubscribed ==
  \A name \in StoreNames, consumer \in Consumers :
    \A i \in DOMAIN HookListeners(consumer) :
      LET ev == HookListeners(consumer)[i][1]
          cb == HookListeners(consumer)[i][2]
          held == Range(instances[name].events[ev])
      IN IsFunction(cb) =>
           /\ consumer \in mounted => cb \in held
           /\ (\A other \in mounted :
                 \A j \in DOMAIN HookListeners(other) :
                   HookListeners(other)[j] # <<ev, cb>>) => cb \notin held

\* A validator for b is registered by the time the store call first writes
\* b: it was registered before the call, or the function entry registers
\* it before it returns, or a listener of a registers it while a, the key
\* before b, is dispatched.
ValidatorBeforeWrite ==
  \/ PreOf.config.validators["b"] # NoValidator
  \/ "fx" \in DOMAIN last.arg
  \/ /\ IsPlainObject(last.arg)
     /\ Len(last.arg.pairs) = 2
     /\ last.arg.pairs[1][1] = "a"
     /\ Emitting
     /\ Allowed("a", last.arg.pairs[1][2])
     /\ "Lvalidate" \in Range(PreOf.events["a"])

\* C22: if a validator for key k is installed before k is first written
\* and never replaced, then after any sequence of store calls (plain-object
\* or function entries, any emit flag, re-entrant or not) read(k) is
\* undefined or a value the validator allows.  Stated for k = b and the
\* store call that finds b unwritten: with the validator registered by the
\* time b is written and still registered afterwards, b is undefined or
\* allowed when the call ends.
C22_ValidatedReads ==
  (/\ Called("store")
   /\ "validators" \in PreOf.config.has
   /\ Read(PreOf, "b") = Undefined
   /\ ValidatorBeforeWrite
   /\ PostOf.config.validators["b"] # NoValidator) =>
    \/ Read(PostOf, "b") = Undefined
    \/ ValidatorResult(PostOf.config.validators["b"], Read(PostOf, "b"))

\* The invocations the last call made of listener l for event k.
Received(k, l) == SelectSeq(calls, LAMBDA call : call.ev = k /\ call.cb = l)

\* C23: after an outermost store call with emission enabled returns, for
\* every key k written during it (also by re-entrant store calls from
\* listeners of k) and every listener registered for k throughout the
\* call, the new-value argument of the last invocation the listener
\* received equals read(k), and the previous-value argument of each
\* invocation equals the new-value argument of the one it received just
\* before.  Stated for listeners registered once for k.
C23_ListenersSeeFinalValue ==
  (Called("store") /\ Emitting /\ err = "none") =>
    \A k \in Keys :
      \A l \in Range(PreOf.events[k]) :
        LET got == Received(k, l)
        IN (/\ Len(SelectSeq(PreOf.events[k], LAMBDA cb : cb = l)) = 1
            /\ PostOf.events[k] = PreOf.events[k]
            /\ got # <<>>) =>
             /\ got[Len(got)].args[2] = Read(PostOf, k)
             /\ \A i \in 2..Len(got) : got[i].args[1] = got[i - 1].args[2]

=============================================================================
